---- MODULE Spec2Model ----
(***************************************************************************)
(* A model of src/src/magister.js: the magister() entry point, the         *)
(* Magister.login session negotiation and the privilege-gated resource     *)
(* fetchers (appointments, courses, messageFolders, persons,               *)
(* createAppointment).                                                     *)
(*                                                                         *)
(* Promises are modelled as small state machines.  A step that runs as a   *)
(* promise reaction (a microtask) is an action of its own; a transport     *)
(* response is delivered by the event loop only when no reaction is        *)
(* pending (JavaScript runs the microtask queue to exhaustion before any   *)
(* I/O callback).                                                          *)
(***************************************************************************)
EXTENDS Integers, Sequences, FiniteSets, TLC

VARIABLES
    env,        \* the portal and the caller: what groups may list, who calls
    options,    \* the options object handed to magister()
    m,          \* the promise returned by magister() and the client it yields
    http,       \* the Http transport: constructed flag and its _cookie
    privileges, \* this._privileges: <<>> while undefined, else <<set>>
    profileInfo,\* this.profileInfo: 0 while undefined, else the person id
    personUrl,  \* this._personUrl: 0 while undefined, else the person id in it
    pupilUrl,   \* this._pupilUrl: 0 while undefined, else the person id in it
    lg,         \* the login() invocations
    op          \* the resource fetcher invocations

vars == <<env, options, m, http, privileges, profileInfo, personUrl, pupilUrl, lg, op>>

----------------------------------------------------------------------------
(* Bounds of the model.                                                    *)

\* longest item list a portal response carries
MaxItems == 2
\* longest query string handed to persons()
MaxQueryLen == 4

----------------------------------------------------------------------------
(* JavaScript values.                                                      *)

\* undefined; a template string renders it as the text "undefined"
NULL == "undefined"

\* ToBoolean on the string-or-undefined values the options carry
Truthy(v) == v # NULL /\ v # ""

NoErr == [kind |-> "", message |-> ""]

Err(k, msg) == [kind |-> k, message |-> msg]

\* the two credential-rejection messages login() recognises
KnownMessages ==
    { "Ongeldig account of verkeerde combinatie van gebruikersnaam en wachtwoord. Probeer het nog eens of neem contact op met de applicatiebeheerder van de school.",
      "Je gebruikersnaam en/of wachtwoord is niet correct." }

OtherMessage == "network timeout"

\* what a failing http.get / http.post / http.delete rejects with
TransportErrors == { Err("FetchError", msg) : msg \in KnownMessages \cup {OtherMessage} }

\* what a failing res.json() rejects with
DecodeError == Err("SyntaxError", "Unexpected token < in JSON")

\* reading a property of undefined or null, or calling a non-function
TypeErr(msg) == Err("TypeError", msg)

----------------------------------------------------------------------------
(* Requests as the transport sees them.                                    *)

NoCookie == [SESSION_ID |-> NULL, M6UserName |-> NULL]

Request(method, url) == [method |-> method, url |-> url, cookie |-> http.cookie]

deleteUrl == "/api/sessies/huidige"
postUrl == "/api/sessies"
accountUrl == "/api/account"

SessionIds == {"s1", "s2"}
PersonIds == {1, 2}

\* r.headers.get('set-cookie'): null when the header is absent, else its text.
\* A present header is modelled by the first run of [a-z0-9-] in it, "" when
\* it has none.
SetCookieHeaders == {NULL, ""} \cup SessionIds

\* /[a-z\d-]+/.exec(h): exec applies ToString, so a null header is searched as
\* the text "null" and matches whole; a text with no such run yields null.
NoMatch == "<no match>"
SessionIdPattern(h) ==
    IF h = NULL THEN "null"
    ELSE IF h = "" THEN NoMatch
    ELSE h

----------------------------------------------------------------------------
(* The privilege cache (./privileges, not part of src/): modelled from the  *)
(* specification, section 4.2.                                             *)

\* String.prototype.toLowerCase on the resource names that occur
Lower(name) ==
    CASE name = "Afspraken" -> "afspraken"
      [] name = "Absenties" -> "absenties"
      [] name = "Aanmeldingen" -> "aanmeldingen"
      [] name = "Berichten" -> "berichten"
      [] name = "ContactPersonen" -> "contactpersonen"
      [] OTHER -> name

\* the privilege entries a portal can list, in the portal's own casing
PortalPrivileges ==
    { <<"Afspraken", "read">>, <<"Afspraken", "create">>, <<"Absenties", "read">>,
      <<"Aanmeldingen", "read">>, <<"Berichten", "read">>, <<"ContactPersonen", "read">> }

\* new Privileges(this, raw): the names are stored in one case
Privileges(raw) == { <<Lower(p[1]), p[2]>> : p \in raw }

\* whether the snapshot grants `action` on `thing`, whatever the casing of thing
can(snapshot, thing, action) == <<Lower(thing), action>> \in snapshot

PermissionError(thing, action) == Err("PermissionError", thing)

\* this._privileges.needs(thing, action): NoErr when the promise it returns is
\* resolved, else the error it is rejected with
needs(thing, action) ==
    IF can(privileges[1], thing, action) THEN NoErr ELSE PermissionError(thing, action)

----------------------------------------------------------------------------
(* The login() invocations.                                                *)

LoginIds == {1, 2}

\* pc is where the invocation stands; sid the session id its promise carries;
\* failedAt and cause keep the step that failed and the error it failed with;
\* afterLogin tells that a login() had resolved before this one was called;
\* got are the session ids read from the Set-Cookie headers, in order; account
\* is the decoded account response, once it has arrived; before is what the
\* client held when login() was called: <<_privileges, profileInfo,
\* _personUrl, _pupilUrl>>; rank is 1 + the number of other invocations that
\* had resolved when this one resolved
NoAccount == [id |-> 0, Groep |-> <<>>]

IdleLogin ==
    [pc |-> "idle", forceNew |-> FALSE, sid |-> NULL, err |-> NoErr, reqs |-> <<>>,
     failedAt |-> "", cause |-> NoErr, afterLogin |-> FALSE, got |-> <<>>,
     account |-> NoAccount, before |-> <<<<>>, 0, 0, 0>>, rank |-> 0]

LoginSettled(i) == lg[i].pc \in {"idle", "resolved", "rejected"}

\* a promise reaction of login i is queued
LoginReactionPending(i) == lg[i].pc \in {"adopted", "gotSid", "cookieSet"}

(* The resource fetcher invocations: one record shape for all of them.      *)
(* A fetcher runs one or two request chains ("legs"): privilege check,     *)
(* request, decode, map.                                                   *)

OpIds == {1, 2}

\* a leg: st is none | checked (needs resolved, the request not yet issued) |
\* inflight | done | failed | caught (failed, and the failure swallowed) |
\* late (settled after the fetcher had already settled)
NoLeg == [st |-> "none", url |-> <<>>, items |-> <<>>, err |-> NoErr]

\* undefined where a Date is expected
Undefined == [type |-> "undefined", time |-> 0]

NoArgs ==
    [query |-> <<NULL>>, type |-> NULL, from |-> 0, to |-> 0,
     fillPersons |-> FALSE, fetchAbsences |-> FALSE, ignoreAbsenceErrors |-> FALSE,
     description |-> NULL, start |-> Undefined, end |-> Undefined, fullDay |-> FALSE]

\* reqs are the requests the fetcher has issued, order the legs in the order
\* their requests settled, fills the teacher resolutions of fillPersons (one
\* list per appointment of the result)
IdleOp ==
    [kind |-> "none", pc |-> "idle", args |-> NoArgs, a |-> NoLeg, b |-> NoLeg,
     result |-> <<>>, err |-> NoErr, reqs |-> <<>>, order |-> <<>>, fills |-> <<>>]

OpSettled(i) == op[i].pc \in {"idle", "resolved", "rejected", "threw"}

LegFailed(l) == l.st = "failed"
LegFulfilled(l) == l.st \in {"none", "done", "caught"}

\* Promise.all over the legs can settle: one leg has failed, or all are
\* fulfilled.  A request reaction queued at the call runs before a rejection
\* made at the call has travelled down its own chain to Promise.all.
CanSettle(o) ==
    /\ o.pc = "running"
    /\ o.a.st # "checked" /\ o.b.st # "checked"
    /\ \/ LegFailed(o.a) \/ LegFailed(o.b)
       \/ (LegFulfilled(o.a) /\ LegFulfilled(o.b))

\* one of the resolutions has failed
FillFailed(f) == \E k \in 1..Len(f) : \E j \in 1..Len(f[k]) : f[k][j].st = "failed"

\* mutant: it is enough that no resolution is left waiting behind a finished one
FillsComplete_FirstOfEach(f) ==
    \A k \in 1..Len(f) : \A j \in 1..Len(f[k]) : j = 1 => f[k][j].st = "done"

\* every resolution has completed
FillsComplete(f) == \A k \in 1..Len(f) : \A j \in 1..Len(f[k]) : f[k][j].st = "done"

\* the Promise.all of line 105 can settle
CanFillSettle(o) == o.pc = "filling" /\ (FillFailed(o.fills) \/ FillsComplete(o.fills))

\* a promise reaction of fetcher i is queued
OpReactionPending(i) ==
    \/ (op[i].pc = "running" /\ (op[i].a.st = "checked" \/ op[i].b.st = "checked"))
    \/ CanSettle(op[i])
    \/ CanFillSettle(op[i])

\* the microtask queue is not empty
ReactionPending ==
    \/ \E i \in LoginIds : LoginReactionPending(i)
    \/ \E i \in OpIds : OpReactionPending(i)
    \/ (m.status = "loggingIn" /\ lg[1].pc \in {"resolved", "rejected"})

----------------------------------------------------------------------------
(* magister(options) and Magister.login.                                   *)

\* _.defaults(options, {keepLoggedIn: true, login: true})
defaults(o) == [o EXCEPT !.login = IF o.login = NULL THEN "true" ELSE o.login]

\* mutant: a user name or a password alone is taken for the pair
OptionsComplete_UsernameOrPassword(o) ==
    Truthy(o.school) /\ (Truthy(o.sessionId) \/ Truthy(o.username) \/ Truthy(o.password))

\* the condition of the if at the top of magister()
OptionsComplete(o) ==
    Truthy(o.school) /\ (Truthy(o.sessionId) \/ (Truthy(o.username) /\ Truthy(o.password)))

ConstructionError == Err("Error", "school, username&password or sessionId are required.")

\* the cookie text setSessionId builds
Cookie(sessionId) == [SESSION_ID |-> sessionId, M6UserName |-> options.username]

\* mutant: the cookie is left as it was
setSessionId_CookieKept(sessionId) == http

\* setSessionId(sessionId): the transport as it leaves
setSessionId(sessionId) == [http EXCEPT !.cookie = Cookie(sessionId)]

\* mutant: the test of forceNew inverted
Adopts_WhenForced(forceNew, o) == forceNew /\ Truthy(o.sessionId)

\* whether login() skips the negotiation
Adopts(forceNew, o) == ~forceNew /\ Truthy(o.sessionId)

\* mutant: the supplied session id is never adopted
loginStart_Renegotiates(forceNew, o, h) ==
    [IdleLogin EXCEPT !.pc = "delete", !.forceNew = forceNew,
                      !.reqs = <<[method |-> "DELETE", url |-> deleteUrl, cookie |-> h.cookie]>>]

\* the synchronous part of login(forceNew): the invocation as it leaves it.
\* h is the transport at the time of the call.
loginStart(forceNew, o, h) ==
    IF Adopts(forceNew, o)
    THEN [IdleLogin EXCEPT !.pc = "adopted", !.forceNew = forceNew, !.sid = o.sessionId]
    ELSE [IdleLogin EXCEPT !.pc = "delete", !.forceNew = forceNew,
                           !.reqs = <<[method |-> "DELETE", url |-> deleteUrl, cookie |-> h.cookie]>>]

\* exec(...) returned null and [0] is read from it
NoMatchError == TypeErr("Cannot read property '0' of null")

\* mutant: only the short message is recognised
classify_ShortMessageOnly(err) ==
    IF err.message = "Je gebruikersnaam en/of wachtwoord is niet correct."
    THEN Err("AuthError", err.message) ELSE err

\* the .catch of the negotiation: a known message becomes an AuthError
classify(err) ==
    IF err.message \in KnownMessages THEN Err("AuthError", err.message) ELSE err

magister ==
    /\ m.status = "uncalled"
    /\ options' = defaults(options)
    /\ IF ~OptionsComplete(options')
       THEN /\ m' = [status |-> "rejected", err |-> ConstructionError]
            /\ UNCHANGED <<http, lg>>
       ELSE /\ http' = [constructed |-> TRUE, cookie |-> NoCookie]
            /\ IF options'.login = "true"
               THEN /\ lg' = [lg EXCEPT ![1] = loginStart(FALSE, options', http')]
                    /\ m' = [status |-> "loggingIn", err |-> NoErr]
               ELSE /\ m' = [status |-> "resolved", err |-> NoErr]
                    /\ UNCHANGED lg
    /\ UNCHANGED <<env, privileges, profileInfo, personUrl, pupilUrl, op>>

\* m.login().then(() => m)
magisterSettle ==
    /\ m.status = "loggingIn"
    /\ lg[1].pc \in {"resolved", "rejected"}
    /\ m' = IF lg[1].pc = "resolved"
            THEN [status |-> "resolved", err |-> NoErr]
            ELSE [status |-> "loginFailed", err |-> lg[1].err]
    /\ UNCHANGED <<env, options, http, privileges, profileInfo, personUrl, pupilUrl, lg, op>>

\* a call of m.login(forceNew) by the holder of the client; this._privileges
\* is defined exactly when a login() has resolved before
login(i, forceNew) ==
    /\ m.status = "resolved"
    /\ i \in env.logins
    /\ LoginSettled(i)
    /\ lg' = [lg EXCEPT ![i] = [loginStart(forceNew, options, http)
                                    EXCEPT !.afterLogin = (privileges # <<>>),
                                           !.before = <<privileges, profileInfo,
                                                        personUrl, pupilUrl>>]]
    /\ UNCHANGED <<env, options, m, http, privileges, profileInfo, personUrl, pupilUrl, op>>

\* the body of the POST, lines 266-270 (keepLoggedIn is always true here)
credentials(o) == [Gebruikersnaam |-> o.username, Wachtwoord |-> o.password]

\* the DELETE settles: lines 262-271, or the .catch of lines 273-280
deleteResponse(i) ==
    /\ lg[i].pc = "delete"
    /\ ~ReactionPending
    /\ \/ \E e \in TransportErrors :
            /\ lg' = [lg EXCEPT ![i].pc = "rejected", ![i].err = classify(e),
                                ![i].failedAt = "delete", ![i].cause = e]
            /\ UNCHANGED http
       \/ \E h \in env.headers :
            IF SessionIdPattern(h) = NoMatch
            THEN /\ lg' = [lg EXCEPT ![i].pc = "rejected", ![i].err = classify(NoMatchError),
                                     ![i].failedAt = "delete header", ![i].cause = NoMatchError]
                 /\ UNCHANGED http
            ELSE /\ http' = setSessionId(SessionIdPattern(h))
                 /\ lg' = [lg EXCEPT ![i].pc = "post",
                                     ![i].got = Append(@, SessionIdPattern(h)),
                                     ![i].reqs = Append(@, [method |-> "POST", url |-> postUrl,
                                                            cookie |-> http'.cookie,
                                                            body |-> credentials(options)])]
    /\ UNCHANGED <<env, options, m, privileges, profileInfo, personUrl, pupilUrl, op>>

\* the POST settles: line 272, or the .catch of lines 273-280
postResponse(i) ==
    /\ lg[i].pc = "post"
    /\ ~ReactionPending
    /\ \/ \E e \in TransportErrors :
            lg' = [lg EXCEPT ![i].pc = "rejected", ![i].err = classify(e),
                             ![i].failedAt = "post", ![i].cause = e]
       \/ \E h \in env.headers :
            IF SessionIdPattern(h) = NoMatch
            THEN lg' = [lg EXCEPT ![i].pc = "rejected", ![i].err = classify(NoMatchError),
                                  ![i].failedAt = "post header", ![i].cause = NoMatchError]
            ELSE lg' = [lg EXCEPT ![i].pc = "gotSid", ![i].sid = SessionIdPattern(h),
                                  ![i].got = Append(@, SessionIdPattern(h))]
    /\ UNCHANGED <<env, options, m, http, privileges, profileInfo, personUrl, pupilUrl, op>>

\* .then(setSessionId), line 284
loginSetSessionId(i) ==
    /\ lg[i].pc \in {"adopted", "gotSid"}
    /\ http' = setSessionId(lg[i].sid)
    /\ lg' = [lg EXCEPT ![i].pc = "cookieSet"]
    /\ UNCHANGED <<env, options, m, privileges, profileInfo, personUrl, pupilUrl, op>>

\* this.http.get(`${baseUrl}/api/account`), line 286
loginGetAccount(i) ==
    /\ lg[i].pc = "cookieSet"
    /\ lg' = [lg EXCEPT ![i].pc = "account", ![i].reqs = Append(@, Request("GET", accountUrl))]
    /\ UNCHANGED <<env, options, m, http, privileges, profileInfo, personUrl, pupilUrl, op>>

\* the Groep lists an account response can carry: none, one or two groups (a
\* second group granting nothing or everything)
Groups == {<<>>} \cup { <<P>> : P \in env.lists }
               \cup { <<P, Q>> : P \in env.lists, Q \in {{}, env.grantable} }

\* mutant: the list is added to the snapshot already held
capturedPrivileges_Added(Groep) ==
    Privileges(Groep[1]) \cup (IF privileges = <<>> THEN {} ELSE privileges[1])

\* the privilege list login() captures from an account response
capturedPrivileges(Groep) == Privileges(Groep[1])

\* the account GET settles: lines 287-298
accountResponse(i) ==
    /\ lg[i].pc = "account"
    /\ ~ReactionPending
    /\ \/ \E e \in TransportErrors \cup {DecodeError, TypeErr("Cannot read property 'Id' of undefined")} :
            /\ lg' = [lg EXCEPT ![i].pc = "rejected", ![i].err = e,
                                ![i].failedAt = "account", ![i].cause = e]
            /\ UNCHANGED <<privileges, profileInfo, personUrl, pupilUrl>>
       \/ \E id \in env.persons, Groep \in Groups :
            /\ profileInfo' = id
            /\ IF Groep = <<>>
               THEN /\ lg' = [lg EXCEPT ![i].pc = "rejected",
                                        ![i].account = [id |-> id, Groep |-> Groep],
                                        ![i].err = TypeErr("Cannot read property 'Privileges' of undefined"),
                                        ![i].failedAt = "account",
                                        ![i].cause = TypeErr("Cannot read property 'Privileges' of undefined")]
                    /\ UNCHANGED <<privileges, personUrl, pupilUrl>>
               ELSE /\ privileges' = <<capturedPrivileges(Groep)>>
                    /\ personUrl' = id
                    /\ pupilUrl' = id
                    /\ lg' = [lg EXCEPT ![i].pc = "resolved",
                                        ![i].account = [id |-> id, Groep |-> Groep],
                                        ![i].rank = 1 + Cardinality({ j \in LoginIds :
                                                            lg[j].pc = "resolved" })]
    /\ UNCHANGED <<env, options, m, http, op>>

----------------------------------------------------------------------------
(* The resource fetchers.                                                  *)

SeqUpTo(S, n) == UNION { [1..k -> S] : k \in 0..n }

\* a URL under this._personUrl, built when the fetcher is called
Url(path, params) == [person |-> personUrl, path |-> path, params |-> params]

\* the holder of the client calls a fetcher; each call is followed on a slot
\* of its own
Callable(i, kind) ==
    /\ m.status = "resolved"
    /\ i \in env.ops
    /\ kind \in env.kinds
    /\ op[i].pc = "idle"

\* this._privileges is undefined: reading .needs throws inside the call
threw(kind, args) ==
    [IdleOp EXCEPT !.kind = kind, !.pc = "threw", !.args = args,
                   !.err = TypeErr("Cannot read property 'needs' of undefined")]

\* mutant: the request does not wait for the privilege check
startLeg_Unchecked(thing, action, url) == [NoLeg EXCEPT !.st = "checked", !.url = url]

\* this._privileges.needs(thing, action).then(() => request): the chain as the
\* call leaves it
startLeg(thing, action, url) ==
    IF needs(thing, action) = NoErr
    THEN [NoLeg EXCEPT !.st = "checked", !.url = url]
    ELSE [NoLeg EXCEPT !.st = "failed", !.url = url, !.err = needs(thing, action)]

\* absencesPromise.catch(() => []), lines 80-82
ignoreErrors(l) ==
    IF l.st = "failed" THEN [l EXCEPT !.st = "caught", !.items = <<>>] ELSE l

\* Promise.resolve([])
resolvedEmpty == [NoLeg EXCEPT !.st = "done"]

\* mutant: the .catch is left out
swallows_Never(o, L) == FALSE

\* mutant: the .catch is installed whatever ignoreAbsenceErrors is
swallows_Always(o, L) == o.kind = "appointments" /\ L = "b"

\* whether leg L of fetcher o swallows its failures
swallows(o, L) == o.kind = "appointments" /\ L = "b" /\ o.args.ignoreAbsenceErrors

(* appointments *)

Days == {1, 2}
AppointmentOptions ==
    [fillPersons : {FALSE}, fetchAbsences : BOOLEAN, ignoreAbsenceErrors : BOOLEAN]
DefaultAppointmentOptions ==
    [fillPersons |-> FALSE, fetchAbsences |-> TRUE, ignoreAbsenceErrors |-> TRUE]

\* _(arguments).filter(_.isDate).sortBy().value(), and to = to || from;
\* d2 = 0 stands for a call with one date
extractDates(d1, d2) ==
    IF d2 = 0 THEN <<d1, d1>>
    ELSE IF d1 <= d2 THEN <<d1, d2>> ELSE <<d2, d1>>

\* lines 64-83: the two chains
appointmentsStart(args) ==
    IF privileges = <<>> THEN threw("appointments", args)
    ELSE [IdleOp EXCEPT
            !.kind = "appointments", !.pc = "running", !.args = args,
            !.a = startLeg("afspraken", "read", Url("/afspraken", <<args.from, args.to>>)),
            !.b = IF args.fetchAbsences
                  THEN IF args.ignoreAbsenceErrors
                       THEN ignoreErrors(startLeg("Absenties", "read",
                                                  Url("/absenties", <<args.from, args.to>>)))
                       ELSE startLeg("Absenties", "read", Url("/absenties", <<args.from, args.to>>))
                  ELSE resolvedEmpty]

appointments(i, d1, d2, o) ==
    /\ Callable(i, "appointments")
    /\ op' = [op EXCEPT ![i] = appointmentsStart(
                [NoArgs EXCEPT !.from = extractDates(d1, d2)[1], !.to = extractDates(d1, d2)[2],
                               !.fillPersons = o.fillPersons,
                               !.fetchAbsences = o.fetchAbsences,
                               !.ignoreAbsenceErrors = o.ignoreAbsenceErrors])]
    /\ UNCHANGED <<env, options, m, http, privileges, profileInfo, personUrl, pupilUrl, lg>>

\* absences.find(i => i.appointment.id === a.id): 0 when there is none
RECURSIVE find(_, _)
find(absences, id) ==
    IF absences = <<>> THEN 0
    ELSE IF Head(absences).appointment = id THEN Head(absences).id
    ELSE find(Tail(absences), id)

\* the for loop of lines 87-89
linkAbsences(apps, absences) ==
    [k \in 1..Len(apps) |-> [apps[k] EXCEPT !.absenceInfo = find(absences, apps[k].id)]]

RECURSIVE insertByStart(_, _)
insertByStart(x, s) ==
    IF s = <<>> THEN <<x>>
    ELSE IF x.start < Head(s).start THEN <<x>> \o s
    ELSE <<Head(s)>> \o insertByStart(x, Tail(s))

\* _.sortBy(items, 'start'): a stable sort
RECURSIVE sortBy(_)
sortBy(s) ==
    IF s = <<>> THEN <<>>
    ELSE insertByStart(s[Len(s)], sortBy(SubSeq(s, 1, Len(s) - 1)))

\* mutant: the sort is left out
appointmentsResult_Unsorted(apps, absences) == linkAbsences(apps, absences)

\* lines 86-94
appointmentsResult(apps, absences) == sortBy(linkAbsences(apps, absences))

(* courses, messageFolders *)

coursesStart ==
    IF privileges = <<>> THEN threw("courses", NoArgs)
    ELSE [IdleOp EXCEPT !.kind = "courses", !.pc = "running",
                        !.a = startLeg("aanmeldingen", "read", Url("/aanmeldingen", <<>>))]

courses(i) ==
    /\ Callable(i, "courses")
    /\ op' = [op EXCEPT ![i] = coursesStart]
    /\ UNCHANGED <<env, options, m, http, privileges, profileInfo, personUrl, pupilUrl, lg>>

messageFoldersStart ==
    IF privileges = <<>> THEN threw("messageFolders", NoArgs)
    ELSE [IdleOp EXCEPT !.kind = "messageFolders", !.pc = "running",
                        !.a = startLeg("berichten", "read", Url("/berichten/mappen", <<>>))]

messageFolders(i) ==
    /\ Callable(i, "messageFolders")
    /\ op' = [op EXCEPT ![i] = messageFoldersStart]
    /\ UNCHANGED <<env, options, m, http, privileges, profileInfo, personUrl, pupilUrl, lg>>

(* persons *)

Chars == {" ", "a"}
Queries == SeqUpTo(Chars, MaxQueryLen) \cup {<<NULL>>}
PersonTypes == {NULL, "teacher", "pupil", "project", "parent"}

RECURSIVE trimStart(_)
trimStart(s) == IF s # <<>> /\ Head(s) = " " THEN trimStart(Tail(s)) ELSE s

RECURSIVE trimEnd(_)
trimEnd(s) ==
    IF s # <<>> /\ s[Len(s)] = " " THEN trimEnd(SubSeq(s, 1, Len(s) - 1)) ELSE s

\* query != null ? query.trim() : ''
trim(query) == IF query = <<NULL>> THEN <<>> ELSE trimEnd(trimStart(query))

\* query.replace(/ +/g, '+')
RECURSIVE plusSpaces(_)
plusSpaces(s) ==
    IF s = <<>> THEN <<>>
    ELSE IF Head(s) = " " THEN <<"+">> \o plusSpaces(trimStart(s))
    ELSE <<Head(s)>> \o plusSpaces(Tail(s))

\* lines 220-224
typeCode(type) ==
    CASE type = "teacher" -> "Personeel"
      [] type = "pupil" -> "Leerling"
      [] type = "project" -> "Project"
      [] OTHER -> "Overig"

\* mutant: the length is taken before trimming
tooShort_Untrimmed(query) == query = <<NULL>> \/ Len(query) < 3

\* the condition of line 211
tooShort(query) == Len(trim(query)) < 3

\* persons(query, type) with a type: lines 220-230
personsLeg(query, type) ==
    startLeg("contactpersonen", "read",
             Url("/contactpersonen", <<typeCode(type), plusSpaces(trim(trim(query)))>>))

personsStart(query, type) ==
    LET args == [NoArgs EXCEPT !.query = query, !.type = type] IN
    IF tooShort(query)
    THEN [IdleOp EXCEPT !.kind = "persons", !.pc = "resolved", !.args = args]
    ELSE IF privileges = <<>> THEN threw("persons", args)
    ELSE IF type = NULL
    THEN [IdleOp EXCEPT !.kind = "persons", !.pc = "running", !.args = args,
                        !.a = personsLeg(query, "teacher"), !.b = personsLeg(query, "pupil")]
    ELSE [IdleOp EXCEPT !.kind = "persons", !.pc = "running", !.args = args,
                        !.a = personsLeg(query, type)]

persons(i, query, type) ==
    /\ Callable(i, "persons")
    /\ op' = [op EXCEPT ![i] = personsStart(query, type)]
    /\ UNCHANGED <<env, options, m, http, privileges, profileInfo, personUrl, pupilUrl, lg>>

\* mutant: the two lists concatenated the other way round
personsResult_PupilsFirst(teachers, pupils) == pupils \o teachers

\* ([ teachers, pupils ]) => teachers.concat(pupils)
personsResult(teachers, pupils) == teachers \o pupils

(* createAppointment *)

\* 1000*60*60*24, line 148
DayMs == 1000 * 60 * 60 * 24
HourMs == 1000 * 60 * 60

Date(t) == [type |-> "Date", time |-> t]

CreateOptions ==
    [description : {NULL, "d"},
     start : {Undefined, Date(HourMs), Date(DayMs + 2 * HourMs)},
     end : {Undefined, Date(2 * DayMs)},
     fullDay : BOOLEAN]

\* mutant: end is not required
required_WithoutEnd == <<"description", "start">>

required == <<"description", "start", "end">>

\* options[key] == null
isNull(o, key) ==
    CASE key = "description" -> o.description = NULL
      [] key = "start" -> o.start = Undefined
      [] key = "end" -> o.end = Undefined

ValidationError == Err("Error", required)

\* util.date(d) (./util, not part of src/): the date with its time of day
\* dropped
date(d) == [d EXCEPT !.time = d.time - (d.time % DayMs)]

\* new Date(start.getTime()) + 1000*60*60*24: a Date plus a number is text
fullDayEnd(start) == [type |-> "String", time |-> <<start.time, DayMs>>]

\* lines 146-149: start and end as the payload reads them
effectiveStart(o) == IF o.fullDay THEN date(o.start) ELSE o.start
effectiveEnd(o) == IF o.fullDay THEN fullDayEnd(effectiveStart(o)) ELSE o.end

\* v.toJSON exists
hasToJSON(v) == v.type = "Date"

\* the fields of the payload that depend on the options
payload(o) ==
    [Omschrijving |-> o.description, Start |-> effectiveStart(o).time,
     Einde |-> effectiveEnd(o).time, DuurtHeleDag |-> o.fullDay]

createAppointmentStart(o) ==
    LET args == [NoArgs EXCEPT !.description = o.description, !.start = o.start,
                               !.end = o.end, !.fullDay = o.fullDay] IN
    IF \E k \in 1..Len(required) : isNull(o, required[k])
    THEN [IdleOp EXCEPT !.kind = "createAppointment", !.pc = "rejected", !.args = args,
                        !.err = ValidationError]
    ELSE IF ~hasToJSON(effectiveStart(o)) \/ ~hasToJSON(effectiveEnd(o))
    THEN [IdleOp EXCEPT !.kind = "createAppointment", !.pc = "threw", !.args = args,
                        !.err = TypeErr("toJSON is not a function")]
    ELSE IF privileges = <<>> THEN threw("createAppointment", args)
    ELSE [IdleOp EXCEPT !.kind = "createAppointment", !.pc = "running", !.args = args,
                        !.a = startLeg("afspraken", "create", Url("/afspraken", payload(o)))]

createAppointment(i, o) ==
    /\ Callable(i, "createAppointment")
    /\ op' = [op EXCEPT ![i] = createAppointmentStart(o)]
    /\ UNCHANGED <<env, options, m, http, privileges, profileInfo, personUrl, pupilUrl, lg>>

(* the chains *)

method(kind) == IF kind = "createAppointment" THEN "POST" ELSE "GET"

\* .then(() => this.http.get(url)) / .then(() => this.http.post(url, payload))
\* (the reaction of chain a was queued before that of chain b)
legRequest(i, L) ==
    /\ op[i].pc = "running"
    /\ op[i][L].st = "checked"
    /\ (L = "b" => op[i].a.st # "checked")
    /\ op' = [op EXCEPT ![i][L].st = "inflight",
                        ![i].reqs = Append(@, Request(method(op[i].kind), op[i][L].url))]
    /\ UNCHANGED <<env, options, m, http, privileges, profileInfo, personUrl, pupilUrl, lg>>

AppointmentIds == {1, 2}
Starts == {0, 1}

\* the objects a decoded response maps to: res.Items.map(...)
Payloads(o, L) ==
    CASE o.kind = "appointments" /\ L = "a" ->
            SeqUpTo([id : AppointmentIds, start : Starts, absenceInfo : {0},
                     teachers : env.teachers], env.listLen)
      [] o.kind = "appointments" /\ L = "b" ->
            { [k \in 1..Len(s) |-> [id |-> 10 + k, appointment |-> s[k]]] :
                s \in SeqUpTo(AppointmentIds, env.listLen) }
      [] o.kind = "courses" -> SeqUpTo([id : AppointmentIds, start : Starts], env.listLen)
      [] o.kind = "messageFolders" -> SeqUpTo([id : {1, 2}], env.listLen)
      [] o.kind = "persons" ->
            SeqUpTo([id : PersonIds, type : {o[L].url.params[1]}, filled : {TRUE}], env.listLen)
      [] o.kind = "createAppointment" ->
            { <<[payload |-> o.a.url.params, url |-> "https://school/api/afspraken/1"]>> }

ResponseErrors ==
    TransportErrors \cup {DecodeError, TypeErr("Cannot read property 'map' of undefined")}

\* mutant: a failed request is issued again
failLeg_Retried(o, L, e) == [o[L] EXCEPT !.st = "checked"]

\* a failure of leg L: swallowed on the absence chain when errors are ignored
failLeg(o, L, e) ==
    IF swallows(o, L)
    THEN [o[L] EXCEPT !.st = "caught", !.err = e, !.items = <<>>]
    ELSE [o[L] EXCEPT !.st = "failed", !.err = e]

\* mutant: the transport takes its cookie from the response
legResponse_CookieTaken(i, L) ==
    /\ op[i][L].st = "inflight"
    /\ ~ReactionPending
    /\ op' = [op EXCEPT ![i][L].st = IF op[i].pc # "running" THEN "late" ELSE "done",
                        ![i].order = Append(@, L)]
    /\ http' = [http EXCEPT !.cookie.SESSION_ID = "s2"]
    /\ UNCHANGED <<env, options, m, privileges, profileInfo, personUrl, pupilUrl, lg>>

\* the request of leg L settles and its .then(res => res.json()).then(map) run
legResponse(i, L) ==
    /\ op[i][L].st = "inflight"
    /\ ~ReactionPending
    /\ IF op[i].pc # "running"
       THEN op' = [op EXCEPT ![i][L].st = "late"]
       ELSE \/ \E e \in ResponseErrors :
                 op' = [op EXCEPT ![i][L] = failLeg(op[i], L, e), ![i].order = Append(@, L)]
            \/ \E items \in Payloads(op[i], L) :
                 op' = [op EXCEPT ![i][L].st = "done", ![i][L].items = items,
                                  ![i].order = Append(@, L)]
    /\ UNCHANGED <<env, options, m, http, privileges, profileInfo, personUrl, pupilUrl, lg>>

\* what the fetcher resolves with once every chain is fulfilled
resultOf(o) ==
    CASE o.kind = "appointments" -> appointmentsResult(o.a.items, o.b.items)
      [] o.kind = "courses" -> sortBy(o.a.items)
      [] o.kind = "persons" /\ o.args.type = NULL -> personsResult(o.a.items, o.b.items)
      [] OTHER -> o.a.items

\* a teacher reference as an appointment carries it
Teacher(id) == [id |-> id, filled |-> FALSE]

\* t.getFilled('teacher') (./person, not part of src/): the person record it
\* resolves with
getFilled(t) == [t EXCEPT !.filled = TRUE]

FillErrors == { Err("FetchError", OtherMessage) }

\* lines 100-104: one getFilled per teacher of every appointment, all started
\* in the handler
startFills(apps) ==
    [k \in 1..Len(apps) |->
        [j \in 1..Len(apps[k].teachers) |-> [st |-> "pending", err |-> NoErr]]]

\* .then(teachers => a.teachers = teachers).then(() => a), for every appointment
filled(apps) ==
    [k \in 1..Len(apps) |->
        [apps[k] EXCEPT !.teachers = [j \in 1..Len(@) |-> getFilled(@[j])]]]

\* the last handler, lines 95-106 for appointments(): what the fetcher does
\* with its result
fulfil(o) ==
    IF o.kind = "appointments" /\ o.args.fillPersons
    THEN [o EXCEPT !.pc = "filling", !.result = resultOf(o), !.fills = startFills(resultOf(o))]
    ELSE [o EXCEPT !.pc = "resolved", !.result = resultOf(o)]

\* Promise.all(...).then(...) settles the promise the fetcher returned
opSettle(i) ==
    /\ CanSettle(op[i])
    /\ op' = [op EXCEPT ![i] =
                IF LegFailed(op[i].a) THEN [@ EXCEPT !.pc = "rejected", !.err = op[i].a.err]
                ELSE IF LegFailed(op[i].b) THEN [@ EXCEPT !.pc = "rejected", !.err = op[i].b.err]
                ELSE fulfil(op[i])]
    /\ UNCHANGED <<env, options, m, http, privileges, profileInfo, personUrl, pupilUrl, lg>>

\* one getFilled settles
fillResponse(i) ==
    /\ ~ReactionPending
    /\ \E k \in 1..Len(op[i].fills) : \E j \in 1..Len(op[i].fills[k]) :
          /\ op[i].fills[k][j].st = "pending"
          /\ IF op[i].pc # "filling"
             THEN op' = [op EXCEPT ![i].fills[k][j].st = "late"]
             ELSE \/ \E e \in FillErrors :
                       op' = [op EXCEPT ![i].fills[k][j] = [st |-> "failed", err |-> e]]
                  \/ op' = [op EXCEPT ![i].fills[k][j].st = "done"]
    /\ UNCHANGED <<env, options, m, http, privileges, profileInfo, personUrl, pupilUrl, lg>>

\* the error of the resolution that failed
fillError(f) ==
    LET places == UNION { { <<k, j>> : j \in 1..Len(f[k]) } : k \in 1..Len(f) }
        c == CHOOSE c \in places : f[c[1]][c[2]].st = "failed"
    IN f[c[1]][c[2]].err

\* Promise.all(promises) of line 105 settles the promise appointments() returned
fillSettle(i) ==
    /\ CanFillSettle(op[i])
    /\ op' = [op EXCEPT ![i] =
                IF FillFailed(op[i].fills)
                THEN [@ EXCEPT !.pc = "rejected", !.err = fillError(op[i].fills)]
                ELSE [@ EXCEPT !.pc = "resolved", !.result = filled(op[i].result)]]
    /\ UNCHANGED <<env, options, m, http, privileges, profileInfo, personUrl, pupilUrl, lg>>

----------------------------------------------------------------------------
(* Initial states: before magister() is called.                            *)

OptionsDomain ==
    [school : {NULL, "https://school"}, sessionId : {NULL, "", "s0", "s1"},
     username : {NULL, "user"}, password : {NULL, "pw"}, login : {NULL, "false"}]

InitClient ==
    /\ options \in OptionsDomain
    /\ m = [status |-> "uncalled", err |-> NoErr]
    /\ http = [constructed |-> FALSE, cookie |-> NoCookie]
    /\ privileges = <<>>
    /\ profileInfo = 0
    /\ personUrl = 0
    /\ pupilUrl = 0
    /\ lg = [i \in LoginIds |-> IdleLogin]
    /\ op = [i \in OpIds |-> IdleOp]

\* construction and login, one login() at a time
Init ==
    /\ env = [grantable |-> {<<"Afspraken", "read">>}, logins |-> {1}, ops |-> {}, kinds |-> {},
              listLen |-> MaxItems,
              lists |-> SUBSET {<<"Afspraken", "read">>},
              headers |-> SetCookieHeaders, persons |-> PersonIds,
              teachers |-> {<<>>}]
    /\ InitClient

\* magister() and the login() it makes when a session id is adopted
SessionNext ==
    \/ magister
    \/ magisterSettle
    \/ \E i \in LoginIds : loginSetSessionId(i)
    \/ \E i \in LoginIds : loginGetAccount(i)
    \/ \E i \in LoginIds : accountResponse(i)

LoginNext ==
    \/ SessionNext
    \/ \E i \in LoginIds, forceNew \in BOOLEAN : login(i, forceNew)
    \/ \E i \in LoginIds : deleteResponse(i)
    \/ \E i \in LoginIds : postResponse(i)

Next == LoginNext

Spec == Init /\ [][Next]_vars

\* a client built from a session id, logged in once by magister()
InitSession ==
    /\ InitClient
    /\ options \in [school : {"https://school"}, sessionId : {"s0"}, username : {"user"},
                     password : {NULL}, login : {NULL, "false"}]

ChainNext ==
    \/ \E i \in env.ops, L \in {"a", "b"} : legRequest(i, L)
    \/ \E i \in env.ops, L \in {"a", "b"} : legResponse(i, L)
    \/ \E i \in env.ops : opSettle(i)

\* appointments()
InitAppointments ==
    /\ env = [grantable |-> {<<"Afspraken", "read">>, <<"Absenties", "read">>},
              logins |-> {}, ops |-> {1}, kinds |-> {"appointments"}, listLen |-> MaxItems,
              lists |-> SUBSET {<<"Afspraken", "read">>, <<"Absenties", "read">>},
              headers |-> SetCookieHeaders, persons |-> PersonIds,
              teachers |-> {<<>>}]
    /\ InitSession

NextAppointments ==
    \/ SessionNext
    \/ \E i \in env.ops : Callable(i, "appointments")
          /\ \E d1 \in Days, d2 \in Days \cup {0}, o \in AppointmentOptions :
                appointments(i, d1, d2, o)
    \/ ChainNext

SpecAppointments == InitAppointments /\ [][NextAppointments]_vars

\* the read operations, under every combination of read privileges
InitRead ==
    /\ env = [grantable |-> { p \in PortalPrivileges : p[2] = "read" },
              logins |-> {}, ops |-> {1},
              kinds |-> {"appointments", "courses", "messageFolders", "persons"},
              listLen |-> 1,
              lists |-> SUBSET { p \in PortalPrivileges : p[2] = "read" },
              headers |-> SetCookieHeaders, persons |-> PersonIds,
              teachers |-> {<<>>}]
    /\ InitSession

NextRead ==
    \/ SessionNext
    \/ \E i \in env.ops : Callable(i, "appointments")
          /\ \E d1 \in Days, d2 \in Days \cup {0} :
                appointments(i, d1, d2, DefaultAppointmentOptions)
    \/ \E i \in env.ops : courses(i)
    \/ \E i \in env.ops : messageFolders(i)
    \/ \E i \in env.ops : Callable(i, "persons")
          /\ \E query \in Queries, type \in PersonTypes : persons(i, query, type)
    \/ ChainNext

SpecRead == InitRead /\ [][NextRead]_vars

\* persons()
InitPersons ==
    /\ env = [grantable |-> {<<"ContactPersonen", "read">>, <<"Afspraken", "read">>},
              logins |-> {}, ops |-> {1}, kinds |-> {"persons"}, listLen |-> MaxItems,
              lists |-> SUBSET {<<"ContactPersonen", "read">>, <<"Afspraken", "read">>},
              headers |-> SetCookieHeaders, persons |-> PersonIds,
              teachers |-> {<<>>}]
    /\ InitSession

NextPersons ==
    \/ SessionNext
    \/ \E i \in env.ops : Callable(i, "persons")
          /\ \E query \in Queries, type \in PersonTypes : persons(i, query, type)
    \/ ChainNext

SpecPersons == InitPersons /\ [][NextPersons]_vars

\* createAppointment()
InitCreate ==
    /\ env = [grantable |-> {<<"Afspraken", "read">>, <<"Afspraken", "create">>},
              logins |-> {}, ops |-> {1}, kinds |-> {"createAppointment"}, listLen |-> MaxItems,
              lists |-> SUBSET {<<"Afspraken", "read">>, <<"Afspraken", "create">>},
              headers |-> SetCookieHeaders, persons |-> PersonIds,
              teachers |-> {<<>>}]
    /\ InitSession

NextCreate ==
    \/ SessionNext
    \/ \E i \in env.ops : Callable(i, "createAppointment")
          /\ \E o \in CreateOptions : createAppointment(i, o)
    \/ ChainNext

SpecCreate == InitCreate /\ [][NextCreate]_vars

\* every operation of the client, used by one caller in turn: logins, forced
\* or not, then a fetcher once no login is running
InitUse ==
    /\ env = [grantable |-> PortalPrivileges, logins |-> {1}, ops |-> {1},
              kinds |-> {"appointments", "courses", "messageFolders", "persons",
                         "createAppointment"},
              listLen |-> 1,
              lists |-> {PortalPrivileges, PortalPrivileges \ {<<"Absenties", "read">>}},
              headers |-> {"", "s1"}, persons |-> {1},
              teachers |-> {<<>>}]
    /\ InitClient
    /\ options \in [school : {"https://school"}, sessionId : {"s0"}, username : {"user"},
                     password : {"pw"}, login : {NULL, "false"}]

NoLoginRunning == \A j \in LoginIds : LoginSettled(j)

NextUse ==
    \/ SessionNext
    \/ \E i \in env.logins, forceNew \in BOOLEAN :
          (\A j \in OpIds : op[j].pc = "idle") /\ login(i, forceNew)
    \/ \E i \in LoginIds : deleteResponse(i)
    \/ \E i \in LoginIds : postResponse(i)
    \/ \E i \in env.ops : Callable(i, "appointments") /\ NoLoginRunning
          /\ \E o \in AppointmentOptions : appointments(i, 1, 0, o)
    \/ \E i \in env.ops : NoLoginRunning /\ courses(i)
    \/ \E i \in env.ops : NoLoginRunning /\ messageFolders(i)
    \/ \E i \in env.ops : Callable(i, "persons") /\ NoLoginRunning
          /\ \E query \in {<<"a">>, <<"a", " ", "a">>}, type \in {NULL, "teacher"} :
                persons(i, query, type)
    \/ \E i \in env.ops : Callable(i, "createAppointment") /\ NoLoginRunning
          /\ \E o \in { c \in CreateOptions : c.description = "d" /\ c.start = Date(HourMs) } :
                createAppointment(i, o)
    \/ ChainNext

SpecUse == InitUse /\ [][NextUse]_vars

\* two fetcher invocations at a time, of any kind, on a client logged in once
InitFetchers ==
    /\ env = [grantable |-> PortalPrivileges, logins |-> {}, ops |-> {1, 2},
              kinds |-> {"appointments", "courses", "messageFolders", "persons",
                         "createAppointment"},
              listLen |-> 0,
              lists |-> {PortalPrivileges, PortalPrivileges \ {<<"Absenties", "read">>}},
              headers |-> {"s1"}, persons |-> {1},
              teachers |-> {<<>>}]
    /\ InitSession

NextFetchers ==
    \/ SessionNext
    \/ \E i \in env.ops : Callable(i, "appointments")
          /\ \E o \in { c \in AppointmentOptions : c.fetchAbsences } : appointments(i, 1, 0, o)
    \/ \E i \in env.ops : courses(i)
    \/ \E i \in env.ops : messageFolders(i)
    \/ \E i \in env.ops : Callable(i, "persons")
          /\ \E query \in {<<"a", " ", "a">>}, type \in {NULL, "teacher"} :
                persons(i, query, type)
    \/ \E i \in env.ops : Callable(i, "createAppointment")
          /\ \E o \in { c \in CreateOptions : c.description = "d" /\ c.start = Date(HourMs) } :
                createAppointment(i, o)
    \/ ChainNext

SpecFetchers == InitFetchers /\ [][NextFetchers]_vars

\* appointments() with fillPersons
InitFill ==
    /\ env = [grantable |-> {<<"Afspraken", "read">>, <<"Absenties", "read">>},
              logins |-> {}, ops |-> {1}, kinds |-> {"appointments"}, listLen |-> 2,
              lists |-> {{<<"Afspraken", "read">>, <<"Absenties", "read">>}},
              headers |-> {"s1"}, persons |-> {1},
              teachers |-> {<<>>, <<Teacher(1)>>, <<Teacher(2), Teacher(1)>>}]
    /\ InitSession

NextFill ==
    \/ SessionNext
    \/ \E i \in env.ops : Callable(i, "appointments")
          /\ \E o \in [fillPersons : {TRUE}, fetchAbsences : {TRUE}, ignoreAbsenceErrors : {TRUE}] :
                appointments(i, 1, 0, o)
    \/ ChainNext
    \/ \E i \in env.ops : fillResponse(i)
    \/ \E i \in env.ops : fillSettle(i)

SpecFill == InitFill /\ [][NextFill]_vars

\* a client built from the credentials; its holder calls login() twice, the
\* second time while the first call is running
InitTwoLogins ==
    /\ env = [grantable |-> {<<"Afspraken", "read">>}, logins |-> {1, 2}, ops |-> {}, kinds |-> {},
              listLen |-> MaxItems,
              lists |-> {{<<"Afspraken", "read">>}},
              headers |-> {"s1", "s2"}, persons |-> PersonIds,
              teachers |-> {<<>>}]
    /\ InitClient
    /\ options \in [school : {"https://school"}, sessionId : {NULL}, username : {"user"},
                     password : {"pw"}, login : {NULL}]

NextTwoLogins ==
    \/ SessionNext
    \/ \E i \in env.logins, forceNew \in BOOLEAN :
          /\ ~lg[i].afterLogin
          /\ \A j \in LoginIds \ {i} : lg[j].pc \notin {"resolved", "rejected"}
          /\ login(i, forceNew)
    \/ \E i \in LoginIds : deleteResponse(i)
    \/ \E i \in LoginIds : postResponse(i)

SpecTwoLogins == InitTwoLogins /\ [][NextTwoLogins]_vars

----------------------------------------------------------------------------
(* The claims.                                                             *)

Methods(reqs) == { reqs[k].method : k \in 1..Len(reqs) }
Paths(reqs) == { reqs[k].url.path : k \in 1..Len(reqs) }

ReadKinds == {"appointments", "courses", "messageFolders", "persons"}

\* the resource a read operation is about, as the portal spells it
OwnResource(kind) ==
    CASE kind = "appointments" -> "afspraken"
      [] kind = "courses" -> "aanmeldingen"
      [] kind = "messageFolders" -> "berichten"
      [] kind = "persons" -> "contactpersonen"

OwnPath(kind) ==
    CASE kind = "appointments" -> "/afspraken"
      [] kind = "courses" -> "/aanmeldingen"
      [] kind = "messageFolders" -> "/berichten/mappen"
      [] kind = "persons" -> "/contactpersonen"

\* the length of a query once the blanks at its two ends are gone
TrimmedLen(query) ==
    LET solid == { k \in 1..Len(query) : query[k] # " " } IN
    IF query = <<NULL>> \/ solid = {} THEN 0
    ELSE (CHOOSE k \in solid : \A j \in solid : j <= k)
         - (CHOOSE k \in solid : \A j \in solid : k <= j) + 1

\* a read operation was called while the snapshot held no "read" on its own
\* resource (persons with a query of three characters or more)
ReadRefused(o) ==
    /\ o.kind \in ReadKinds
    /\ o.pc # "idle"
    /\ privileges # <<>>
    /\ <<OwnResource(o.kind), "read">> \notin privileges[1]
    /\ (o.kind = "persons" => TrimmedLen(o.args.query) >= 3)

RejectsWithPermissionError(o) ==
    /\ o.pc \in {"running", "rejected"}
    /\ (o.pc = "rejected" => o.err.kind = "PermissionError")

\* C1 as stated: a read operation called without "read" on its own resource
\* rejects with PermissionError and the transport receives no call at all
\* during it, whatever else is granted.
C1_NoCallAtAll ==
    \A i \in OpIds :
        ReadRefused(op[i]) => RejectsWithPermissionError(op[i]) /\ op[i].reqs = <<>>

\* C1, amended: a read operation called without "read" on its own resource
\* rejects with PermissionError and the transport receives no call for that
\* resource; the only call it can receive is the GET to /absenties that
\* appointments() issues when "read" on Absenties is granted.
C1_NoCallForOwnResource ==
    \A i \in OpIds :
        ReadRefused(op[i]) =>
            /\ RejectsWithPermissionError(op[i])
            /\ OwnPath(op[i].kind) \notin Paths(op[i].reqs)
            /\ \/ op[i].reqs = <<>>
               \/ /\ op[i].kind = "appointments"
                  /\ <<"absenties", "read">> \in privileges[1]
                  /\ Len(op[i].reqs) = 1
                  /\ op[i].reqs[1].url.path = "/absenties"

C1_Witness ==
    \E i \in OpIds :
        /\ ReadRefused(op[i])
        /\ op[i].kind = "appointments"
        /\ op[i].pc = "rejected"
        /\ op[i].err.kind = "PermissionError"
        /\ Len(op[i].reqs) = 1

\* C2: with a non-empty session id supplied at construction, a login() with
\* forceNew=false issues neither the DELETE nor the POST and, when it resolves,
\* resolves with that session id.
C2_AdoptsSuppliedSession ==
    \A i \in LoginIds :
        (lg[i].pc # "idle" /\ ~lg[i].forceNew /\ options.sessionId \notin {NULL, ""}) =>
            /\ Methods(lg[i].reqs) \cap {"DELETE", "POST"} = {}
            /\ \A k \in 1..Len(lg[i].reqs) :
                 lg[i].reqs[k].url \notin {"/api/sessies/huidige", "/api/sessies"}
            /\ (lg[i].pc = "resolved" => lg[i].sid = options.sessionId)

C2_Witness ==
    \E i \in LoginIds :
        /\ lg[i].pc = "resolved"
        /\ ~lg[i].forceNew
        /\ options.sessionId = "s1"
        /\ lg[i].sid = "s1"
        /\ Len(lg[i].reqs) = 1

\* C3: when the session-creation POST fails, login() rejects with an AuthError
\* carrying the message if the message is one of the two known ones, and with
\* the original error otherwise.
C3_PostFailureClassified ==
    \A i \in LoginIds :
        (lg[i].pc = "rejected" /\ lg[i].failedAt = "post") =>
            IF lg[i].cause.message \in KnownMessages
            THEN lg[i].err = [kind |-> "AuthError", message |-> lg[i].cause.message]
            ELSE lg[i].err = lg[i].cause

C3_Witness ==
    \E i \in LoginIds :
        /\ lg[i].pc = "rejected"
        /\ lg[i].failedAt = "post"
        /\ options.username = "user" /\ options.password = "pw"
        /\ lg[i].err.kind = "AuthError"
        /\ lg[i].cause.kind = "FetchError"
        /\ lg[i].err.message \in KnownMessages
        /\ lg[i].err.message # "Je gebruikersnaam en/of wachtwoord is niet correct."

\* an option that was given a value
Given(v) == v \notin {NULL, ""}

OptionsIncomplete ==
    \/ ~Given(options.school)
    \/ ~(Given(options.sessionId) \/ (Given(options.username) /\ Given(options.password)))

\* C4: magister(options) rejects with the construction error, with no transport
\* built, no login() called and no request issued, when school is missing or
\* neither sessionId nor username and password together are given; in every
\* other case it does not reject with the construction error.
C4_ConstructionCheck ==
    m.status # "uncalled" =>
        IF OptionsIncomplete
        THEN /\ m.status = "rejected"
             /\ m.err.message = "school, username&password or sessionId are required."
             /\ ~http.constructed
             /\ \A i \in LoginIds : lg[i].pc = "idle" /\ lg[i].reqs = <<>>
        ELSE /\ m.status # "rejected"
             /\ m.err.message # "school, username&password or sessionId are required."
             /\ http.constructed

C4_Witness ==
    /\ m.status = "rejected"
    /\ Given(options.school)
    /\ Given(options.username)
    /\ ~Given(options.password)
    /\ ~Given(options.sessionId)

CreateCalled(o) == o.kind = "createAppointment" /\ o.pc # "idle"

RequiredMissing(o) ==
    \/ o.args.description = NULL
    \/ o.args.start.type = "undefined"
    \/ o.args.end.type = "undefined"

\* C5: createAppointment with description, start or end missing rejects with
\* the validation error that lists description, start, end, before any
\* privilege check and without a request, also when "create" is not granted.
C5_ValidationFirst ==
    \A i \in OpIds :
        (CreateCalled(op[i]) /\ RequiredMissing(op[i])) =>
            /\ op[i].pc = "rejected"
            /\ op[i].err = [kind |-> "Error", message |-> <<"description", "start", "end">>]
            /\ op[i].a.st = "none"
            /\ op[i].reqs = <<>>

C5_Witness ==
    \E i \in OpIds :
        /\ CreateCalled(op[i])
        /\ op[i].args.description = "d"
        /\ op[i].args.start.type = "undefined"
        /\ op[i].args.end.type = "undefined"
        /\ privileges # <<>>
        /\ <<"afspraken", "create">> \notin privileges[1]
        /\ op[i].pc = "rejected"

\* C6 as stated: createAppointment with all required fields issues its POST
\* only after the check for (afspraken, create) has succeeded, and without
\* that privilege rejects with PermissionError and issues no POST.
C6_PrivilegeBeforePost ==
    \A i \in OpIds :
        (CreateCalled(op[i]) /\ ~RequiredMissing(op[i]) /\ privileges # <<>>) =>
            /\ (op[i].reqs # <<>> => <<"afspraken", "create">> \in privileges[1])
            /\ (<<"afspraken", "create">> \notin privileges[1] =>
                    /\ op[i].reqs = <<>>
                    /\ RejectsWithPermissionError(op[i]))

AppointmentsResolved(o) == o.kind = "appointments" /\ o.pc = "resolved"

HasAbsence(absences, id) == \E j \in 1..Len(absences) : absences[j].appointment = id

\* C7: appointments() resolves with the appointments in non-decreasing order
\* of start; an appointment whose id is the appointment id of a fetched
\* absence carries an absence with that appointment id, every other
\* appointment carries none.
C7_SortedAndLinked ==
    \A i \in OpIds :
        AppointmentsResolved(op[i]) =>
            LET r == op[i].result
                absences == op[i].b.items
            IN /\ \A k \in 1..(Len(r) - 1) : r[k].start <= r[k + 1].start
               /\ \A k \in 1..Len(r) :
                    IF HasAbsence(absences, r[k].id)
                    THEN \E j \in 1..Len(absences) :
                            /\ absences[j].id = r[k].absenceInfo
                            /\ absences[j].appointment = r[k].id
                    ELSE r[k].absenceInfo = 0

C7_Witness ==
    \E i \in OpIds :
        /\ AppointmentsResolved(op[i])
        /\ op[i].args.from < op[i].args.to
        /\ Len(op[i].a.items) = 2
        /\ op[i].a.items[1].start > op[i].a.items[2].start
        /\ op[i].result[1].absenceInfo # 0
        /\ op[i].result[2].absenceInfo = 0

\* how often x occurs in s
Count(s, x) == Cardinality({ k \in 1..Len(s) : s[k] = x })

\* C8: with fetchAbsences and ignoreAbsenceErrors on, a failure of the absence
\* path (privilege, transport or decoding) while the appointment path succeeds
\* leaves appointments() resolving with every fetched appointment, none with
\* an absence.
C8_AbsenceFailureIgnored ==
    \A i \in OpIds :
        LET o == op[i] IN
        ( /\ o.kind = "appointments"
          /\ o.args.fetchAbsences /\ o.args.ignoreAbsenceErrors /\ ~o.args.fillPersons
          /\ o.b.err # NoErr
          /\ o.a.st = "done" ) =>
            /\ o.pc \in {"running", "resolved"}
            /\ o.pc = "resolved" =>
                 /\ Len(o.result) = Len(o.a.items)
                 /\ \A k \in 1..Len(o.a.items) :
                      Count(o.result, o.a.items[k]) = Count(o.a.items, o.a.items[k])
                 /\ \A k \in 1..Len(o.result) : o.result[k].absenceInfo = 0

C8_Witness ==
    \E i \in OpIds :
        /\ AppointmentsResolved(op[i])
        /\ op[i].args.fetchAbsences /\ op[i].args.ignoreAbsenceErrors
        /\ op[i].b.err.kind = "FetchError"
        /\ Len(op[i].result) = 2

PersonsCalled(o) == o.kind = "persons" /\ o.pc # "idle"

\* C9: persons(query, type) with no query, or one shorter than three
\* characters once trimmed, resolves with an empty list, with no privilege
\* check and no request, for every type.
C9_ShortQueryEmpty ==
    \A i \in OpIds :
        (PersonsCalled(op[i]) /\ TrimmedLen(op[i].args.query) < 3) =>
            /\ op[i].pc = "resolved"
            /\ op[i].result = <<>>
            /\ op[i].a.st = "none" /\ op[i].b.st = "none"
            /\ op[i].reqs = <<>>

C9_Witness ==
    \E i \in OpIds :
        /\ PersonsCalled(op[i])
        /\ op[i].args.query = <<" ", "a", "a", " ">>
        /\ op[i].args.type = "teacher"
        /\ privileges # <<>>
        /\ op[i].pc = "resolved"

\* C10: persons(query) without a type and with three characters or more starts
\* exactly two sub-queries, teacher and pupil, issues both requests before
\* either is answered, and resolves with the teachers followed by the pupils
\* whichever is answered first.
C10_TeachersThenPupils ==
    \A i \in OpIds :
        LET o == op[i] IN
        ( /\ PersonsCalled(o) /\ o.args.type = NULL
          /\ TrimmedLen(o.args.query) >= 3 /\ privileges # <<>> ) =>
            /\ o.a.st # "none" /\ o.b.st # "none"
            /\ o.a.url.params[1] = "Personeel" /\ o.b.url.params[1] = "Leerling"
            /\ Len(o.reqs) <= 2
            /\ (o.order # <<>> =>
                    /\ Len(o.reqs) = 2
                    /\ { o.reqs[1].url, o.reqs[2].url } = { o.a.url, o.b.url })
            /\ (o.pc = "resolved" =>
                    /\ Len(o.result) = Len(o.a.items) + Len(o.b.items)
                    /\ \A k \in 1..Len(o.a.items) : o.result[k] = o.a.items[k]
                    /\ \A k \in 1..Len(o.b.items) : o.result[Len(o.a.items) + k] = o.b.items[k]
                    /\ \A k \in 1..Len(o.result) :
                         o.result[k].type =
                            IF k <= Len(o.a.items) THEN "Personeel" ELSE "Leerling")

C10_Witness ==
    \E i \in OpIds :
        /\ PersonsCalled(op[i]) /\ op[i].args.type = NULL
        /\ op[i].args.query = <<"a", " ", " ", "a">>
        /\ op[i].pc = "resolved"
        /\ op[i].order = <<"b", "a">>
        /\ op[i].a.items # <<>> /\ op[i].b.items # <<>>

\* a login() called after an earlier login() had resolved
LaterLogin(l) == l.pc # "idle" /\ l.afterLogin

\* a login() that re-negotiates: its first request is the DELETE, and the
\* request after it, if any, is the POST
Renegotiates(l) ==
    /\ Len(l.reqs) >= 1
    /\ l.reqs[1].method = "DELETE"
    /\ (Len(l.reqs) >= 2 => l.reqs[2].method = "POST")

\* C11 as stated: after a login() has resolved, every later login() with
\* forceNew=false issues no request at all while a session id is known (the
\* cookie carries one); a login() with forceNew=true re-negotiates, DELETE
\* then POST, even with a session id supplied at construction.
C11_LaterLoginNoNetwork ==
    \A i \in LoginIds :
        LaterLogin(lg[i]) =>
            IF lg[i].forceNew
            THEN Renegotiates(lg[i])
            ELSE http.cookie.SESSION_ID # NULL => lg[i].reqs = <<>>

\* C11, amended: after a login() has resolved, a later login() with
\* forceNew=false issues neither DELETE nor POST when a session id was
\* supplied at construction, its one request being the GET of /api/account;
\* without a supplied session id it re-negotiates like a forced one.  A
\* login() with forceNew=true always re-negotiates, DELETE then POST.
C11_LaterLoginSkipsNegotiation ==
    \A i \in LoginIds :
        LaterLogin(lg[i]) =>
            IF ~lg[i].forceNew /\ Truthy(options.sessionId)
            THEN /\ Len(lg[i].reqs) <= 1
                 /\ \A k \in 1..Len(lg[i].reqs) :
                      lg[i].reqs[k].method = "GET" /\ lg[i].reqs[k].url = accountUrl
                 /\ (lg[i].pc \in {"account", "resolved"} => Len(lg[i].reqs) = 1)
            ELSE Renegotiates(lg[i])

C11_Witness ==
    \E i \in LoginIds :
        /\ LaterLogin(lg[i])
        /\ ~lg[i].forceNew
        /\ options.sessionId = "s0"
        /\ lg[i].pc = "resolved"
        /\ Len(lg[i].reqs) = 1
        /\ lg[i].reqs[1].cookie.SESSION_ID = "s0"

\* the instant of a day's start at or before t
DayStart(t) == t - (t % DayMs)

\* C12 as stated: createAppointment with description, start S, end E and
\* fullDay=true, "create" being granted, sends a payload whose start is S with
\* its time of day dropped and whose end is exactly 24 hours later, whatever
\* E is.
C12_FullDayPayload ==
    \A i \in OpIds :
        (/\ CreateCalled(op[i]) /\ ~RequiredMissing(op[i]) /\ op[i].args.fullDay
         /\ privileges # <<>> /\ <<"afspraken", "create">> \in privileges[1]) =>
            /\ op[i].pc # "threw"
            /\ op[i].a.url.params.Start = DayStart(op[i].args.start.time)
            /\ op[i].a.url.params.Einde = DayStart(op[i].args.start.time) + DayMs

\* a login() that takes the negotiating branch of line 257
Negotiating(l) == l.pc # "idle" /\ (l.forceNew \/ ~Truthy(options.sessionId))

\* C13: a negotiating login issues DELETE /api/sessies/huidige, then POST
\* /api/sessies with the credentials, then GET /api/account, each after the
\* one before it has completed; the POST is issued under the cookie built from
\* the session id of the DELETE's Set-Cookie, the GET under the cookie built
\* from the session id of the POST's Set-Cookie.  After a failed DELETE
\* neither the POST nor the GET is issued, after a failed POST the GET is not.
C13_NegotiationOrder ==
    \A i \in LoginIds :
        Negotiating(lg[i]) =>
            LET l == lg[i] IN
            /\ Len(l.reqs) \in 1..3
            /\ l.reqs[1].method = "DELETE" /\ l.reqs[1].url = "/api/sessies/huidige"
            /\ (l.pc = "delete" => Len(l.reqs) = 1 /\ l.got = <<>>)
            /\ (Len(l.reqs) >= 2 =>
                    /\ l.reqs[2].method = "POST" /\ l.reqs[2].url = "/api/sessies"
                    /\ l.reqs[2].body = [Gebruikersnaam |-> options.username,
                                         Wachtwoord |-> options.password]
                    /\ Len(l.got) >= 1
                    /\ l.reqs[2].cookie = [SESSION_ID |-> l.got[1],
                                           M6UserName |-> options.username])
            /\ (l.pc = "post" => Len(l.reqs) = 2 /\ Len(l.got) = 1)
            /\ (Len(l.reqs) = 3 =>
                    /\ l.reqs[3].method = "GET" /\ l.reqs[3].url = "/api/account"
                    /\ Len(l.got) = 2
                    /\ l.reqs[3].cookie = [SESSION_ID |-> l.got[2],
                                           M6UserName |-> options.username])
            /\ (l.failedAt \in {"delete", "delete header"} =>
                    l.pc = "rejected" /\ Len(l.reqs) = 1)
            /\ (l.failedAt \in {"post", "post header"} =>
                    l.pc = "rejected" /\ Len(l.reqs) = 2)

C13_Witness ==
    \E i \in LoginIds :
        /\ Negotiating(lg[i])
        /\ lg[i].forceNew
        /\ options.sessionId = "s0"
        /\ lg[i].pc = "resolved"
        /\ lg[i].got = <<"s1", "s2">>
        /\ Len(lg[i].reqs) = 3
        /\ lg[i].reqs[2].cookie.SESSION_ID = "s1"
        /\ lg[i].reqs[3].cookie.SESSION_ID = "s2"

\* the last request a login() has issued
LastRequest(l) == l.reqs[Len(l.reqs)]

\* C14: when a login() that overlaps no other resolves with session id s, the
\* cookie is SESSION_ID=s; M6UserName=<username>, the privilege snapshot is
\* the privilege list of the first group of this login's account response and
\* nothing more, personUrl and pupilUrl carry the person id of that response,
\* and the account GET was issued under that very cookie.
C14_ResolvedLoginState ==
    \A i \in LoginIds :
        lg[i].pc = "resolved" =>
            LET l == lg[i]
                cookie == [SESSION_ID |-> l.sid, M6UserName |-> options.username] IN
            /\ http.cookie = cookie
            /\ Len(l.account.Groep) >= 1
            /\ privileges = << { <<Lower(p[1]), p[2]>> : p \in l.account.Groep[1] } >>
            /\ personUrl = l.account.id
            /\ pupilUrl = l.account.id
            /\ l.account.id \in PersonIds
            /\ LastRequest(l).method = "GET" /\ LastRequest(l).url = "/api/account"
            /\ LastRequest(l).cookie = cookie

C14_Witness ==
    \E i \in LoginIds :
        /\ lg[i].pc = "resolved"
        /\ lg[i].afterLogin
        /\ lg[i].forceNew
        /\ lg[i].got = <<"s1", "s2">>
        /\ http.cookie.SESSION_ID = "s2"
        /\ lg[i].account.Groep = << {<<"Afspraken", "read">>}, {} >>
        /\ privileges = << {<<"afspraken", "read">>} >>
        /\ personUrl = 2

\* no two requests of a login() go to the same endpoint
LoginEndpointsOnce(l) ==
    \A j, k \in 1..Len(l.reqs) : j # k => l.reqs[j].url # l.reqs[k].url

\* no two requests of a fetcher go to the same endpoint
EndpointsOnce(o) ==
    \A j, k \in 1..Len(o.reqs) : j # k => o.reqs[j].url.path # o.reqs[k].url.path

\* the one chain whose failures are meant to be dropped
AbsencePathIgnored(o, L) ==
    o.kind = "appointments" /\ L = "b" /\ o.args.fetchAbsences /\ o.args.ignoreAbsenceErrors

\* C15: no operation retries.  Within one invocation of login, appointments,
\* courses, messageFolders, persons (with a type) or createAppointment every
\* endpoint is requested at most once; a failed request makes the invocation
\* reject with that failure (a login failure keeps its message), the request
\* is not issued again, and an invocation resolves past a failure only on the
\* absence path of appointments() with ignoreAbsenceErrors=true.
C15_NoRetries ==
    /\ \A i \in LoginIds :
          /\ LoginEndpointsOnce(lg[i])
          /\ (lg[i].failedAt # "" =>
                  /\ lg[i].pc = "rejected"
                  /\ lg[i].err.message = lg[i].cause.message
                  /\ (lg[i].failedAt = "delete" => Len(lg[i].reqs) = 1)
                  /\ (lg[i].failedAt = "post" => Len(lg[i].reqs) = 2)
                  /\ (lg[i].failedAt = "account" => LastRequest(lg[i]).url = "/api/account"))
          /\ (lg[i].pc = "resolved" => lg[i].err = NoErr /\ lg[i].cause = NoErr)
    /\ \A i \in OpIds :
          LET o == op[i] IN
          /\ (~(o.kind = "persons" /\ o.args.type = NULL) => EndpointsOnce(o))
          /\ Len(o.reqs) <= 2
          /\ \A L \in {"a", "b"} :
                /\ (o[L].st = "caught" => AbsencePathIgnored(o, L))
                /\ (o[L].st = "failed" =>
                        /\ ~AbsencePathIgnored(o, L)
                        /\ o.pc \in {"running", "rejected"}
                        /\ (o.pc = "rejected" =>
                                o.err = IF o.a.st = "failed" THEN o.a.err ELSE o.b.err))
                /\ (o.pc = "resolved" /\ o[L].err # NoErr => AbsencePathIgnored(o, L))

C15_Witness ==
    /\ lg[1].pc = "rejected" /\ lg[1].failedAt = "post" /\ Len(lg[1].reqs) = 2
    /\ op[1].kind = "appointments" /\ ~op[1].args.ignoreAbsenceErrors
    /\ op[1].pc = "rejected"
    /\ op[1].b.st = "failed" /\ op[1].err.kind = "FetchError"
    /\ Len(op[1].reqs) = 2

\* what login() writes on the client and its transport
SessionState == <<http, privileges, personUrl, pupilUrl>>

\* C16: the cookie, the privilege snapshot, personUrl and pupilUrl are
\* written by login() only: no step of an appointments, courses,
\* messageFolders, persons or createAppointment invocation changes any of
\* them, whether the invocation resolves or rejects and however the steps of
\* two invocations interleave.
C16_FetchersWriteNothing ==
    [][op' # op => SessionState' = SessionState]_vars

C16_Witness ==
    /\ http.cookie.SESSION_ID = "s0"
    /\ privileges # <<>>
    /\ personUrl = 1 /\ pupilUrl = 1
    /\ op[1].kind = "appointments" /\ op[1].pc = "rejected" /\ op[1].b.st = "inflight"
    /\ op[2].kind = "createAppointment" /\ op[2].pc = "resolved"
    /\ op[2].reqs[1].cookie.SESSION_ID = "s0"

\* appointments() was called on a client that holds a privilege snapshot
AppointmentsCalled(o) == o.kind = "appointments" /\ o.pc \in {"running", "resolved", "rejected"}

\* the absence path of o has failed and the failure is not to be ignored
AbsencePathFailed(o) ==
    /\ AppointmentsCalled(o)
    /\ o.args.fetchAbsences /\ ~o.args.ignoreAbsenceErrors
    /\ o.b.err # NoErr

\* fetchAbsences=false: nothing is checked or requested for the absences, and
\* a call that resolves carries no absence
AbsencesSuppressed(o) ==
    (AppointmentsCalled(o) /\ ~o.args.fetchAbsences) =>
        /\ o.b.err = NoErr
        /\ o.b.st = "done"
        /\ \A k \in 1..Len(o.reqs) : o.reqs[k].url.path # "/absenties"
        /\ (o.a.st = "done" => o.pc \in {"running", "resolved"})
        /\ (o.pc = "resolved" =>
                /\ Len(o.result) = Len(o.a.items)
                /\ \A k \in 1..Len(o.result) : o.result[k].absenceInfo = 0)

\* C17 as stated: with fetchAbsences=true and ignoreAbsenceErrors=false any
\* failure on the absence path makes appointments() reject with that error;
\* with fetchAbsences=false there is no check and no request for absences and
\* the call resolves with every absence unset.
C17_AbsenceFailureRejects ==
    \A i \in OpIds :
        /\ AbsencePathFailed(op[i]) =>
                /\ op[i].pc \in {"running", "rejected"}
                /\ (op[i].pc = "rejected" => op[i].err = op[i].b.err)
        /\ AbsencesSuppressed(op[i])

\* C17, amended: with fetchAbsences=true and ignoreAbsenceErrors=false a
\* failure on the absence path makes appointments() reject: with that error,
\* unless the appointment path has failed as well and first, and then with the
\* appointment path's error.  With fetchAbsences=false there is no check and
\* no request for absences, and a call that resolves carries no absence.
C17_AbsenceFailureRejectsFirstError ==
    \A i \in OpIds :
        /\ AbsencePathFailed(op[i]) =>
                /\ op[i].b.st = "failed"
                /\ op[i].pc \in {"running", "rejected"}
                /\ (op[i].pc = "rejected" =>
                        op[i].err = IF op[i].a.err # NoErr THEN op[i].a.err ELSE op[i].b.err)
        /\ AbsencesSuppressed(op[i])

C17_Witness ==
    \E i \in OpIds :
        /\ AbsencePathFailed(op[i])
        /\ op[i].a.st = "done"
        /\ op[i].pc = "rejected"
        /\ op[i].err = DecodeError
        /\ Len(op[i].reqs) = 2

\* appointments() was called with fillPersons
FillRequested(o) == o.kind = "appointments" /\ o.pc # "idle" /\ o.args.fillPersons

\* an appointment as it was fetched: no absence linked, no teacher resolved
AsFetched(a) ==
    [a EXCEPT !.absenceInfo = 0,
              !.teachers = [j \in 1..Len(@) |-> [@[j] EXCEPT !.filled = FALSE]]]

\* r holds the appointments of items, each as often as items does, in
\* non-decreasing order of start
SortedRearrangement(r, items) ==
    /\ Len(r) = Len(items)
    /\ \A k \in 1..Len(items) :
          Cardinality({ j \in 1..Len(r) : AsFetched(r[j]) = items[k] })
            = Cardinality({ j \in 1..Len(items) : items[j] = items[k] })
    /\ \A k \in 1..(Len(r) - 1) : r[k].start <= r[k + 1].start

\* every started teacher resolution
Fills(o) == UNION { { o.fills[k][j] : j \in 1..Len(o.fills[k]) } : k \in 1..Len(o.fills) }

\* C18: with fillPersons, appointments() starts the teacher resolutions only
\* once both fetches have completed and the list is linked and sorted, one
\* per teacher of every appointment; it resolves only when every resolution
\* has completed and rejects when one fails; the list it resolves with is
\* still in non-decreasing order of start, every appointment carrying its
\* teachers, resolved, in their original order.
C18_FillAfterFetches ==
    \A i \in OpIds :
        FillRequested(op[i]) =>
            LET o == op[i] IN
            /\ (o.pc = "running" => Len(o.fills) = 0)
            /\ (o.pc = "filling" \/ Len(o.fills) > 0 =>
                    /\ o.a.st = "done" /\ o.b.st \in {"done", "caught"}
                    /\ SortedRearrangement(o.result, o.a.items)
                    /\ Len(o.fills) = Len(o.result)
                    /\ \A k \in 1..Len(o.result) :
                          Len(o.fills[k]) = Len(o.result[k].teachers))
            /\ (o.pc = "filling" =>
                    \A k \in 1..Len(o.result) : o.result[k] = linkAbsences(o.result, o.b.items)[k])
            /\ (o.pc = "resolved" =>
                    /\ \A f \in Fills(o) : f.st = "done"
                    /\ SortedRearrangement(o.result, o.a.items)
                    /\ \A k \in 1..Len(o.result) :
                          \A j \in 1..Len(o.result[k].teachers) : o.result[k].teachers[j].filled)
            /\ ((\E f \in Fills(o) : f.st = "failed") =>
                    /\ o.pc \in {"filling", "rejected"}
                    /\ (o.pc = "rejected" => o.err \in { f.err : f \in Fills(o) } \ {NoErr}))

C18_Witness ==
    \E i \in OpIds :
        /\ FillRequested(op[i])
        /\ op[i].pc = "resolved"
        /\ Len(op[i].result) = 2
        /\ op[i].a.items[1].start > op[i].a.items[2].start
        /\ op[i].result[1].teachers = <<[id |-> 2, filled |-> TRUE], [id |-> 1, filled |-> TRUE]>>
        /\ op[i].result[2].teachers = <<[id |-> 1, filled |-> TRUE]>>
        /\ op[i].result[1].absenceInfo # 0

\* C19 as stated: a login() that rejects, whatever made it reject, leaves the
\* privilege snapshot, profileInfo, personUrl and pupilUrl as they were when
\* it was called (only the cookie may have changed).
C19_RejectedLoginWritesNothing ==
    \A i \in LoginIds :
        lg[i].pc = "rejected" =>
            <<privileges, profileInfo, personUrl, pupilUrl>> = lg[i].before

\* the two login() invocations have both resolved, i being the last to do so
BothResolved(i) ==
    /\ \A j \in LoginIds : lg[j].pc = "resolved" /\ Negotiating(lg[j])
    /\ lg[i].rank = 2

\* C20 as stated: once two overlapping negotiating login() calls have both
\* resolved, the cookie names the session id of the call that resolved last,
\* and the privilege snapshot and personUrl are those of the account response
\* fetched under that session id.
C20_LastLoginWins ==
    \A i \in LoginIds :
        BothResolved(i) =>
            /\ http.cookie.SESSION_ID = lg[i].sid
            /\ LastRequest(lg[i]).cookie.SESSION_ID = lg[i].sid
            /\ privileges = << { <<Lower(p[1]), p[2]>> : p \in lg[i].account.Groep[1] } >>
            /\ personUrl = lg[i].account.id

====
